---- MODULE Spec2Model ----
(***************************************************************************)
(* django-pgtrigger (src/pgtrigger/core.py): the trigger registry, the     *)
(* lifecycle operations install / uninstall / enable / disable / prune     *)
(* against a database catalog, and the per-thread ignore scopes carried to *)
(* the database session by a pre-execute hook.                             *)
(*                                                                         *)
(* Names (trigger names, pgids, URIs) are sequences of one-character       *)
(* strings, so that prefixing, splitting on ':' and LIKE matching are      *)
(* computed on their characters.                                           *)
(***************************************************************************)
EXTENDS Integers, Sequences, FiniteSets, TLC

\* ------------------------------------------------------------------ bounds
\* Most register/unregister scope guards open at once.
MaxGuards == 2
\* Most ignore scopes one thread has open at once.
MaxDepth == 2

\* --------------------------------------------------------------- constants
\* pgid: the longest trigger name accepted.
MaxNameLen == 53

\* pgid: f'pgtrigger_{self.name}'
PgidPrefix == <<"p", "g", "t", "r", "i", "g", "g", "e", "r", "_">>

\* prune: WHERE trigger_name LIKE 'pgtrigger_%'
LikePattern == <<"p", "g", "t", "r", "i", "g", "g", "e", "r", "_", "%">>

\* install_ignore_func: the name of the shared predicate function.
IgnoreFunc ==
    <<"_", "p", "g", "t", "r", "i", "g", "g", "e", "r", "_",
      "s", "h", "o", "u", "l", "d", "_", "i", "g", "n", "o", "r", "e">>

\* ---------------------------------------------------------- the host models
\* The models of the host application (django.db.models.Model classes).
Models == {"m1", "m2"}

\* model._meta: app_label.object_name and db_table of each model.
Meta(model) ==
    IF model = "m1"
    THEN [qualifier |-> <<"x", ".", "M">>, db_table |-> "t1"]
    ELSE [qualifier |-> <<"x", ".", "N">>, db_table |-> "t2"]

Tables == {Meta(m).db_table : m \in Models}

\* -------------------------------------------------------- trigger definitions
\* Protect(name='a', operation=Delete), Protect(name='a', operation=Update),
\* Protect(name='b', operation=Delete): two distinct definitions share a name.
TrigA == [_name |-> <<"a">>, operation |-> "DELETE", cls |-> "Protect"]
TrigA2 == [_name |-> <<"a">>, operation |-> "UPDATE", cls |-> "Protect"]
TrigB == [_name |-> <<"b">>, operation |-> "DELETE", cls |-> "Protect"]

Triggers == {TrigA, TrigA2, TrigB}

\* ------------------------------------------------------------ construction
\* Python values: an attribute that is None or was not given is the empty
\* string or sequence; SoftDelete's value, which may be of any type, is a
\* record of its type and of the text str() gives for it.
NoneText == <<"N", "o", "n", "e">>
PyNone == [type |-> "NoneType", text |-> NoneText]
PyFalse == [type |-> "bool", text |-> <<"F", "a", "l", "s", "e">>]
PyTrue == [type |-> "bool", text |-> <<"T", "r", "u", "e">>]
PyStr(chars) == [type |-> "str", text |-> chars]
Unset == [type |-> "_unset", text |-> <<>>]

\* The instances of _Level, _When and _Operation, by the text str() gives.
Levels == {"ROW", "STATEMENT"}
Whens == {"BEFORE", "AFTER", "INSTEAD OF"}
Operations == {"UPDATE", "DELETE", "TRUNCATE", "INSERT"}

\* The characters the digest is cut to, and the class prefix of a default
\* name with its underscore.
HashLen == 16
PrefixLen == 37

\* Subclasses of Protect the host application declares, whose class names have
\* PrefixLen - 1 and PrefixLen + 3 characters.
ProtectSubclasses == {"ProtectNamedToThePrefix", "ProtectNamedBeyondThePrefix"}

\* The class attributes a constructor falls back on.
ClassAttr(cls) ==
    [level |-> "ROW",
     when |-> IF cls \in {"Protect", "FSM", "SoftDelete"} \cup ProtectSubclasses
              THEN "BEFORE" ELSE "",
     operation |-> CASE cls = "FSM" -> "UPDATE"
                     [] cls = "SoftDelete" -> "DELETE"
                     [] OTHER -> ""]

\* The keyword arguments of a constructor call; what is not given is empty.
Kwargs ==
    [cls |-> "Trigger", name |-> <<>>, level |-> "", when |-> "",
     operation |-> "", condition |-> <<>>, referencing |-> "", func |-> <<>>,
     field |-> <<>>, value |-> Unset, transitions |-> <<>>]

\* Trigger.__init__: the attributes are set in this order, then validated.
\* The attributes `own` were set by the subclass constructor before.
Trigger_init(cls, a, own) ==
    LET level == IF a.level # "" THEN a.level ELSE ClassAttr(cls).level
        when == IF a.when # "" THEN a.when ELSE ClassAttr(cls).when
        operation == IF a.operation # "" THEN a.operation
                     ELSE ClassAttr(cls).operation
        obj == [cls |-> cls, field |-> own.field, value |-> own.value,
                transitions |-> own.transitions, _name |-> a.name,
                level |-> level, when |-> when, operation |-> operation,
                condition |-> a.condition, referencing |-> a.referencing,
                func |-> a.func]
    IN  [obj |-> obj,
         err |-> IF level \notin Levels THEN "ValueError"
                 ELSE IF when \notin Whens THEN "ValueError"
                 ELSE IF operation \notin Operations THEN "ValueError"
                 ELSE IF level = "ROW" /\ a.referencing # "" THEN "ValueError"
                 ELSE "none"]

NoOwn == [field |-> <<>>, value |-> Unset, transitions |-> <<>>]

\* FSM.__init__(condition, field, transitions)
FSM_init(a) ==
    IF a.field = <<>> \/ a.transitions = <<>>
    THEN [obj |-> Kwargs, err |-> "ValueError"]
    ELSE Trigger_init("FSM",
                      [Kwargs EXCEPT !.condition = a.condition],
                      [NoOwn EXCEPT !.field = a.field,
                                    !.transitions = a.transitions])

\* SoftDelete.__init__(name, condition, field, value); value defaults to False.
SoftDelete_init(a) ==
    IF a.field = <<>> THEN [obj |-> Kwargs, err |-> "ValueError"]
    ELSE Trigger_init("SoftDelete",
                      [Kwargs EXCEPT !.name = a.name,
                                     !.condition = a.condition],
                      [NoOwn EXCEPT !.field = a.field,
                                    !.value = IF a.value = Unset THEN PyFalse
                                              ELSE a.value])

\* cls(**kwargs), for the classes Trigger, Protect and its subclasses, FSM and
\* SoftDelete.
Construct(a) ==
    CASE a.cls = "FSM" -> FSM_init(a)
      [] a.cls = "SoftDelete" -> SoftDelete_init(a)
      [] OTHER -> Trigger_init(a.cls, a, NoOwn)

\* --------------------------------------------------------------------- names
RECURSIVE ReprPairs(_)
\* str() of a list of tuples of strings: [('a', 'b'), ('b', 'c')]
ReprPairs(pairs) ==
    IF pairs = <<>> THEN <<>>
    ELSE <<"(", "'">> \o Head(pairs)[1] \o <<"'", ",", " ", "'">>
             \o Head(pairs)[2] \o <<"'", ")">>
             \o (IF Tail(pairs) = <<>> THEN <<>> ELSE <<",", " ">>)
             \o ReprPairs(Tail(pairs))

\* str() of an attribute that is a string or None.
StrOrNone(chars) == IF chars = <<>> THEN NoneText ELSE chars

\* ''.join(str(k) for k in self.get_key()): get_key lists the values of
\* self.__dict__, the attributes in the order the constructors set them.
JoinedKey(t) ==
    (CASE t.cls = "FSM" ->
              t.field \o <<"[">> \o ReprPairs(t.transitions) \o <<"]">>
       [] t.cls = "SoftDelete" -> t.field \o t.value.text
       [] OTHER -> <<>>)
        \o StrOrNone(t._name) \o <<t.level, t.when, t.operation>>
        \o StrOrNone(t.condition)
        \o (IF t.referencing = "" THEN NoneText ELSE <<t.referencing>>)
        \o StrOrNone(t.func)

\* hashlib.sha1(key).hexdigest()[:16]: sixteen characters, of which the first
\* piece stands for the value of the digest and the others fill its length.
\* The digest is taken to be free of collisions: one value for each key text.
Digest(key) == <<ToString(key)>> \o [i \in 1..(HashLen - 1) |-> "0"]

\* self.__class__.__name__.lower()
ClassName(cls) ==
    CASE cls = "FSM" -> <<"f", "s", "m">>
      [] cls = "SoftDelete" ->
             <<"s", "o", "f", "t", "d", "e", "l", "e", "t", "e">>
      [] cls = "Protect" -> <<"p", "r", "o", "t", "e", "c", "t">>
      [] cls = "ProtectNamedToThePrefix" -> [i \in 1..(PrefixLen - 1) |-> "p"]
      [] cls = "ProtectNamedBeyondThePrefix" ->
             [i \in 1..(PrefixLen + 3) |-> "p"]
      [] OTHER -> <<"t", "r", "i", "g", "g", "e", "r">>

\* Variant: the class prefix is not cut.
ClassPrefix_uncut(cls) == ClassName(cls) \o <<"_">>

\* f'{self.__class__.__name__.lower()}_'[:37]
ClassPrefix(cls) ==
    LET text == ClassName(cls) \o <<"_">>
    IN  IF Len(text) > PrefixLen THEN SubSeq(text, 1, PrefixLen) ELSE text

\* Trigger.name: the name given, or the class prefix and the digest of the key.
name(trigger) ==
    IF trigger._name # <<>> THEN trigger._name
    ELSE ClassPrefix(trigger.cls) \o Digest(JoinedKey(trigger))

\* Trigger.pgid raises ValueError when the name is longer than 53 characters.
PgidRaises(trigger) == Len(name(trigger)) > MaxNameLen

\* Trigger.pgid: 'pgtrigger_' + name.
pgid(trigger) == PgidPrefix \o name(trigger)

\* Trigger.get_uri: f'{app_label}.{object_name}:{name}'
get_uri(trigger, model) == Meta(model).qualifier \o <<":">> \o name(trigger)

\* The FSM and SoftDelete definitions the row statements are tried with, each
\* on the column f of model m1.
RowKwargs ==
    { [Kwargs EXCEPT !.cls = "FSM", !.field = <<"f">>,
                     !.transitions = << <<<<"a">>, <<"b">>>>,
                                        <<<<"b">>, <<"c">>>> >>],
      [Kwargs EXCEPT !.cls = "FSM", !.field = <<"f">>,
                     !.transitions = << <<<<"a">>, <<"b", ",", "c">>>> >>],
      [Kwargs EXCEPT !.cls = "FSM", !.field = <<"f">>,
                     !.transitions = << <<<<"a", ":", "b">>, <<"c">>>> >>],
      [Kwargs EXCEPT !.cls = "SoftDelete", !.field = <<"f">>],
      [Kwargs EXCEPT !.cls = "SoftDelete", !.name = <<"s", "d">>,
                     !.field = <<"f">>, !.value = PyTrue],
      [Kwargs EXCEPT !.cls = "SoftDelete", !.name = <<"s", "d">>,
                     !.field = <<"f">>, !.value = PyNone],
      [Kwargs EXCEPT !.cls = "SoftDelete", !.name = <<"s", "d">>,
                     !.field = <<"f">>, !.value = PyStr(<<"c">>)],
      [Kwargs EXCEPT !.cls = "SoftDelete", !.name = <<"s", "d">>,
                     !.field = <<"f">>,
                     !.value = PyStr(<<"a", "'", "'", "b">>)] }

RowDefinitions == {Construct(a).obj : a \in RowKwargs}

\* ---------------------------------------------------------------- rendering
RECURSIVE JoinTransitions(_)
\* ','.join([f'{old}:{new}' for old, new in self.transitions])
JoinTransitions(transitions) ==
    IF transitions = <<>> THEN <<>>
    ELSE Head(transitions)[1] \o <<":">> \o Head(transitions)[2]
             \o (IF Tail(transitions) = <<>> THEN <<>> ELSE <<",">>)
             \o JoinTransitions(Tail(transitions))

\* SoftDelete.get_func, _render_value: NULL, the text between quotes, or str().
_render_value(value) ==
    IF value.type = "NoneType" THEN <<"N", "U", "L", "L">>
    ELSE IF value.type = "str" THEN <<"'">> \o value.text \o <<"'">>
    ELSE value.text

\* The text of a function of the catalog: what is written between its BEGIN
\* and END after the clause of render_ignore, and its DECLARE.
NoBody ==
    [kind |-> "", declare |-> <<>>, operation |-> "", table |-> "",
     field |-> <<>>, literal |-> <<>>]

\* install_ignore_func: the body of _pgtrigger_should_ignore.
IgnoreBody == [NoBody EXCEPT !.kind = "should_ignore"]

\* Trigger.render_func(model): render_declare and get_func of the class.
\* Protect's message names the operation, FSM's body the column and the array
\* literal, SoftDelete's the table, the column and the rendered value.
render_func(e) ==
    LET t == e.trigger IN
    CASE t.cls = "FSM" ->
             [NoBody EXCEPT !.kind = "fsm",
                            !.declare = <<"_is_valid_transition BOOLEAN">>,
                            !.field = t.field,
                            !.literal = <<"{">> \o JoinTransitions(t.transitions)
                                            \o <<"}">>]
      [] t.cls = "SoftDelete" ->
             [NoBody EXCEPT !.kind = "softdelete",
                            !.table = Meta(e.model).db_table,
                            !.field = t.field,
                            !.literal = _render_value(t.value)]
      [] t.cls = "Trigger" -> [NoBody EXCEPT !.kind = "func", !.literal = t.func]
      [] OTHER -> [NoBody EXCEPT !.kind = "protect", !.operation = t.operation]

\* Trigger.render_condition: WHEN and the condition, in parentheses.
render_condition(condition) ==
    IF condition = <<>> THEN <<>>
    ELSE <<"WHEN">> \o (IF Head(condition) = "(" THEN condition
                        ELSE <<"(">> \o condition \o <<")">>)

\* The text a trigger of the catalog was created from.
NoBinding ==
    [when |-> "", operation |-> "", level |-> "", referencing |-> "",
     condition |-> <<>>]

\* Trigger.render_trigger(model): CREATE TRIGGER <pgid> <when> <operation> ON
\* <table> <referencing> FOR EACH <level> <condition>.  A definition written
\* with its name, operation and class alone has the attributes of its class.
render_trigger(e) ==
    LET t == e.trigger IN
    IF "when" \in DOMAIN t
    THEN [when |-> t.when, operation |-> t.operation, level |-> t.level,
          referencing |-> t.referencing,
          condition |-> render_condition(t.condition)]
    ELSE [NoBinding EXCEPT !.when = ClassAttr(t.cls).when,
                           !.operation = t.operation,
                           !.level = ClassAttr(t.cls).level]

\* ------------------------------------------------------------ sequence helpers

RECURSIVE SeqOfSet(_)
\* The elements of a finite set in one fixed order (a set's iteration order).
SeqOfSet(S) ==
    IF S = {} THEN <<>>
    ELSE LET x == CHOOSE y \in S : TRUE IN <<x>> \o SeqOfSet(S \ {x})

\* ------------------------------------------------------------------ registry
\* registry = {}: a dict in insertion order; an entry is uri -> (model, trigger).
Entry(trigger, model) ==
    [uri |-> get_uri(trigger, model), model |-> model, trigger |-> trigger]

RegUris(reg) == {reg[i].uri : i \in 1..Len(reg)}

\* registry[uri]
RegGet(reg, uri) == reg[CHOOSE i \in 1..Len(reg) : reg[i].uri = uri]

\* registry[uri] = value: an existing key keeps its position and is overwritten.
DictSet(reg, e) ==
    IF e.uri \in RegUris(reg)
    THEN [i \in 1..Len(reg) |-> IF reg[i].uri = e.uri THEN e ELSE reg[i]]
    ELSE Append(reg, e)

\* del registry[uri], for a key that is present.
DictDel(reg, uri) == SelectSeq(reg, LAMBDA e : e.uri # uri)

\* ---------------------------------------------------------------------- get
\* uri.split(':') has one element exactly when the URI holds no ':'.
HasColon(uri) == \E i \in 1..Len(uri) : uri[i] = ":"

\* get(*uris): the exception it raises, or "none".  The validating loop skips
\* an empty URI, which then fails the lookup registry[uri] with KeyError.
GetError(reg, uris) ==
    IF \E i \in 1..Len(uris) :
          uris[i] # <<>> /\ (~HasColon(uris[i]) \/ uris[i] \notin RegUris(reg))
    THEN "ValueError"
    ELSE IF \E i \in 1..Len(uris) : uris[i] \notin RegUris(reg)
    THEN "KeyError"
    ELSE "none"

\* get(*uris): the (model, trigger) pairs, in input order, or every registered
\* pair in registry order when no URI is given.
get(reg, uris) ==
    IF uris = <<>> THEN reg
    ELSE [i \in 1..Len(uris) |-> RegGet(reg, uris[i])]

\* ----------------------------------------------------------------- database
\* Triggers other applications created on the host's tables: one whose name
\* starts with pgtrigger but not with the reserved prefix, and one unrelated.
ForeignNames ==
    { <<"p", "g", "t", "r", "i", "g", "g", "e", "r", "s", "x">>, <<"o">> }

\* The (table, trigger name) pairs the catalog can hold.
TrigKeys ==
    {<<t, pgid(tr)>> : t \in Tables, tr \in Triggers}
        \cup {<<"t1", n>> : n \in ForeignNames}
        \cup {<<"t1", pgid(tr)>> : tr \in RowDefinitions}

\* The names of the functions the catalog can hold.
FuncNames == {k[2] : k \in TrigKeys} \cup {IgnoreFunc}

\* The texts of a catalog that holds none of the program's objects; the
\* triggers of the other applications are AFTER INSERT row triggers.
NoRendered ==
    [func |-> [n \in FuncNames |-> NoBody],
     trigger |-> [k \in TrigKeys |->
                    IF k[2] \in ForeignNames
                    THEN [NoBinding EXCEPT !.when = "AFTER",
                                           !.operation = "INSERT",
                                           !.level = "ROW"]
                    ELSE NoBinding]]

RECURSIVE Like(_, _)
\* SQL LIKE: '_' matches any one character, '%' any run of characters.
Like(str, pat) ==
    IF pat = <<>> THEN str = <<>>
    ELSE IF Head(pat) = "%"
    THEN Like(str, Tail(pat)) \/ (str # <<>> /\ Like(Tail(str), pat))
    ELSE /\ str # <<>>
         /\ (Head(pat) = "_" \/ Head(pat) = Head(str))
         /\ Like(Tail(str), Tail(pat))

\* One statement sent through cursor.execute, as recorded in the statement log.
Stmt(sql, table, nm) == [sql |-> sql, table |-> table, name |-> nm]

\* The running state of one lifecycle call: the catalog, the statements sent
\* so far, and the exception that ended the call ("none" while it runs).
Sent(s, stmt) == [s EXCEPT !.stmts = Append(@, stmt)]

\* CREATE OR REPLACE FUNCTION <fname>() ...
ExecCreateFunction(s, fname, body) ==
    [Sent(s, Stmt("CREATE OR REPLACE FUNCTION", "", fname))
        EXCEPT !.functions = @ \cup {fname},
               !.rendered.func[fname] = body]

\* Variant: CREATE OR REPLACE TRIGGER, which replaces a trigger that exists by
\* an enabled one of the new text.
ExecCreateOrReplaceTrigger(s, table, pg, binding, denied) ==
    LET t == Sent(s, Stmt("CREATE TRIGGER", table, pg)) IN
    IF table \in denied THEN t
    ELSE [t EXCEPT !.triggers[<<table, pg>>] = "enabled",
                   !.rendered.trigger[<<table, pg>>] = binding]

\* DO $$ BEGIN CREATE TRIGGER ... EXCEPTION WHEN others THEN null; END $$;
\* CREATE TRIGGER fails with duplicate_object when the binding exists, and with
\* another error on the tables in `denied`; the handler swallows either.
ExecCreateTrigger(s, table, pg, binding, denied) ==
    LET t == Sent(s, Stmt("CREATE TRIGGER", table, pg)) IN
    IF s.triggers[<<table, pg>>] # "absent" THEN t
    ELSE IF table \in denied THEN t
    ELSE [t EXCEPT !.triggers[<<table, pg>>] = "enabled",
                   !.rendered.trigger[<<table, pg>>] = binding]

\* Variant: the drop takes the backing function with the trigger.
drop_trigger_and_function(s, table, trigger_pgid) ==
    [Sent(s, Stmt("DROP TRIGGER IF EXISTS", table, trigger_pgid))
        EXCEPT !.triggers[<<table, trigger_pgid>>] = "absent",
               !.rendered.trigger[<<table, trigger_pgid>>] = NoBinding,
               !.functions = @ \ {trigger_pgid},
               !.rendered.func[trigger_pgid] = NoBody]

\* Variant: DROP TRIGGER without IF EXISTS, which fails on a missing trigger.
drop_trigger_strict(s, table, trigger_pgid) ==
    LET t == Sent(s, Stmt("DROP TRIGGER IF EXISTS", table, trigger_pgid)) IN
    IF s.triggers[<<table, trigger_pgid>>] = "absent"
    THEN [t EXCEPT !.err = "ProgrammingError"]
    ELSE [t EXCEPT !.triggers[<<table, trigger_pgid>>] = "absent",
                   !.rendered.trigger[<<table, trigger_pgid>>] = NoBinding]

\* _drop_trigger: DROP TRIGGER IF EXISTS <pgid> ON <table>;
_drop_trigger(s, table, trigger_pgid) ==
    [Sent(s, Stmt("DROP TRIGGER IF EXISTS", table, trigger_pgid))
        EXCEPT !.triggers[<<table, trigger_pgid>>] = "absent",
               !.rendered.trigger[<<table, trigger_pgid>>] = NoBinding]

\* ALTER TABLE <table> ENABLE|DISABLE TRIGGER <pgid>; fails when the table has
\* no such trigger.
ExecAlterTrigger(s, table, pg, status) ==
    LET t == Sent(s, Stmt(status, table, pg)) IN
    IF s.triggers[<<table, pg>>] = "absent"
    THEN [t EXCEPT !.err = "ProgrammingError"]
    ELSE [t EXCEPT !.triggers[<<table, pg>>] =
              IF status = "ENABLE TRIGGER" THEN "enabled" ELSE "disabled"]

\* install_ignore_func
install_ignore_func(s) == ExecCreateFunction(s, IgnoreFunc, IgnoreBody)

\* ------------------------------------------------------- Trigger's methods
\* Variant: the binding is created before the function it executes.
Trigger_install_binding_first(s, e, denied) ==
    LET s1 == install_ignore_func(s)
        table == Meta(e.model).db_table
    IN  IF PgidRaises(e.trigger) THEN [s1 EXCEPT !.err = "ValueError"]
        ELSE ExecCreateFunction(
                 ExecCreateTrigger(s1, table, pgid(e.trigger),
                                   render_trigger(e), denied),
                 pgid(e.trigger), render_func(e))

\* Trigger.install(model): the ignore function, then render_func and
\* render_trigger (either raises when pgid does), then both are executed.
Trigger_install(s, e, denied) ==
    LET s1 == install_ignore_func(s)
        table == Meta(e.model).db_table
    IN  IF PgidRaises(e.trigger) THEN [s1 EXCEPT !.err = "ValueError"]
        ELSE ExecCreateTrigger(ExecCreateFunction(s1, pgid(e.trigger),
                                                  render_func(e)),
                               table, pgid(e.trigger), render_trigger(e),
                               denied)

\* Trigger.uninstall(model)
Trigger_uninstall(s, e) ==
    IF PgidRaises(e.trigger) THEN [s EXCEPT !.err = "ValueError"]
    ELSE _drop_trigger(s, Meta(e.model).db_table, pgid(e.trigger))

\* Trigger.enable(model)
Trigger_enable(s, e) ==
    IF PgidRaises(e.trigger) THEN [s EXCEPT !.err = "ValueError"]
    ELSE ExecAlterTrigger(s, Meta(e.model).db_table, pgid(e.trigger),
                          "ENABLE TRIGGER")

\* Trigger.disable(model)
Trigger_disable(s, e) ==
    IF PgidRaises(e.trigger) THEN [s EXCEPT !.err = "ValueError"]
    ELSE ExecAlterTrigger(s, Meta(e.model).db_table, pgid(e.trigger),
                          "DISABLE TRIGGER")

RECURSIVE Trigger_register(_, _, _)
\* Trigger.register(*models): registry[self.get_uri(model)] = (model, self)
Trigger_register(reg, trigger, models) ==
    IF models = <<>> THEN reg
    ELSE Trigger_register(DictSet(reg, Entry(trigger, Head(models))),
                          trigger, Tail(models))

RECURSIVE Trigger_unregister(_, _, _)
\* Trigger.unregister(*models): del registry[self.get_uri(model)]; a missing
\* key ends the loop with KeyError, after the earlier keys were deleted.
Trigger_unregister(r, trigger, models) ==
    IF models = <<>> \/ r.err # "none" THEN r
    ELSE IF get_uri(trigger, Head(models)) \notin RegUris(r.reg)
    THEN [r EXCEPT !.err = "KeyError"]
    ELSE Trigger_unregister(
             [r EXCEPT !.reg = DictDel(@, get_uri(trigger, Head(models)))],
             trigger, Tail(models))

\* ------------------------------------------------- the lifecycle functions
RECURSIVE ForEach(_, _, _, _)
\* for model, trigger in pairs: <step>; an exception ends the loop.
\* <step> is trigger.install(model), .uninstall, .enable or .disable.
ForEach(s, pairs, step, denied) ==
    IF pairs = <<>> \/ s.err # "none" THEN s
    ELSE ForEach(CASE step = "install" -> Trigger_install(s, Head(pairs), denied)
                   [] step = "uninstall" -> Trigger_uninstall(s, Head(pairs))
                   [] step = "enable" -> Trigger_enable(s, Head(pairs))
                   [] OTHER -> Trigger_disable(s, Head(pairs)),
                 Tail(pairs), step, denied)

\* prune: the (table, pgid) pairs the registry expects.
PruneInstalled(reg) ==
    {<<Meta(reg[i].model).db_table, pgid(reg[i].trigger)>> : i \in 1..Len(reg)}

\* prune: the rows of SELECT event_object_table, trigger_name FROM
\* information_schema.triggers WHERE trigger_name LIKE 'pgtrigger_%'.
PruneSelect(s) ==
    {k \in DOMAIN s.triggers :
        s.triggers[k] # "absent" /\ Like(k[2], LikePattern)}

RECURSIVE DropAll(_, _)
\* prune: for trigger in triggers: _drop_trigger(*trigger)
DropAll(s, keys) ==
    IF keys = <<>> THEN s
    ELSE DropAll(_drop_trigger(s, Head(keys)[1], Head(keys)[2]), Tail(keys))

\* prune()
prune(s, reg) ==
    IF s.err # "none" THEN s
    ELSE IF \E i \in 1..Len(reg) : PgidRaises(reg[i].trigger)
    THEN [s EXCEPT !.err = "ValueError"]
    ELSE LET q == Sent(s, Stmt("SELECT triggers", "", LikePattern))
         IN  DropAll(q, SeqOfSet(PruneSelect(q) \ PruneInstalled(reg)))

\* Variant: install never prunes.
install_without_prune(s, reg, uris, denied) ==
    IF GetError(reg, uris) # "none" THEN [s EXCEPT !.err = GetError(reg, uris)]
    ELSE ForEach(s, get(reg, uris), "install", denied)

\* install(*uris)
install(s, reg, uris, denied) ==
    IF GetError(reg, uris) # "none" THEN [s EXCEPT !.err = GetError(reg, uris)]
    ELSE LET t == ForEach(s, get(reg, uris), "install", denied)
         IN  IF uris = <<>> THEN prune(t, reg) ELSE t

\* Variant: like install, uninstall prunes only when it was given no URI.
uninstall_prune_without_uris(s, reg, uris) ==
    IF GetError(reg, uris) # "none" THEN [s EXCEPT !.err = GetError(reg, uris)]
    ELSE LET t == ForEach(s, get(reg, uris), "uninstall", {})
         IN  IF uris = <<>> THEN prune(t, reg) ELSE t

\* uninstall(*uris)
uninstall(s, reg, uris) ==
    IF GetError(reg, uris) # "none" THEN [s EXCEPT !.err = GetError(reg, uris)]
    ELSE prune(ForEach(s, get(reg, uris), "uninstall", {}), reg)

\* enable(*uris): iterates over get(), every registered pair.
enable(s, reg, uris) == ForEach(s, get(reg, <<>>), "enable", {})

\* disable(*uris)
disable(s, reg, uris) ==
    IF GetError(reg, uris) # "none" THEN [s EXCEPT !.err = GetError(reg, uris)]
    ELSE ForEach(s, get(reg, uris), "disable", {})

\* -------------------------------------------------------------------- state
VARIABLES
    registry,       \* core.registry: the entries in insertion order
    triggers,       \* catalog: (table, name) -> "absent" | "enabled" | "disabled"
    functions,      \* catalog: the names of the functions that exist
    rendered,       \* catalog: the text of each function and of each trigger
    guards,         \* the open _cleanup_on_exit scopes, innermost last
    last,           \* the call that led to this state, and how it ended
    stmts,          \* the statements that call sent, in order
    ignore_value,   \* _ignore.value of each thread
    scopes,         \* the open Trigger.ignore scopes of each thread, innermost last
    hook,           \* whether the thread's pre-execute hook is registered
    txn,            \* whether the thread's connection is inside a transaction
    session,        \* pgtrigger.ignore of the thread's database session
    ran             \* the statement that led to this state, and what fired

vars ==
    <<registry, triggers, functions, rendered, guards, last, stmts,
      ignore_value, scopes, hook, txn, session, ran>>

lifecycleVars ==
    <<registry, triggers, functions, rendered, guards, last, stmts>>
ignoreVars == <<ignore_value, scopes, hook, txn, session, ran>>

\* The threads of execution, each with its own database connection.
Threads == {"c1", "c2"}

\* The arguments the calls are tried with.
Malformed == <<"x", ".", "M", "a">>
UriArgs ==
    { <<>>,
      <<get_uri(TrigA, "m1")>>, <<get_uri(TrigB, "m1")>>,
      <<get_uri(TrigA, "m2")>>, <<Malformed>>,
      <<get_uri(TrigB, "m1"), get_uri(TrigA, "m1")>> }

\* The register and unregister calls the registry is tried with: two
\* definitions of one name on one model, and one definition on two models.
RegisterArgs ==
    { <<TrigA, <<"m1">> >>, <<TrigA2, <<"m1">> >>, <<TrigB, <<"m1", "m2">> >> }

\* The definitions the host application attaches to its models.
Declared ==
    { <<TrigA, <<"m1">> >>, <<TrigB, <<"m1">> >>, <<TrigA, <<"m2">> >> }

\* The failures of CREATE TRIGGER a call is tried with: none, or on table t1.
DeniedArgs == { {}, {"t1"} }

NoTrigger == [_name |-> <<>>, operation |-> "", cls |-> ""]

Call(op, uris, trigger, models, result, before) ==
    [op |-> op, uris |-> uris, trigger |-> trigger, models |-> models,
     result |-> result, before |-> before]

Result(s) == IF s.err = "none" THEN "ok" ELSE s.err

\* The catalog before a call, with nothing sent yet.
Begin ==
    [triggers |-> triggers, functions |-> functions, rendered |-> rendered,
     stmts |-> <<>>, err |-> "none"]

\* The catalog and the statement log after a call.
Commit(s) ==
    /\ triggers' = s.triggers
    /\ functions' = s.functions
    /\ rendered' = s.rendered
    /\ stmts' = s.stmts

NoSession == [set |-> FALSE, value |-> {}]
NoRan == [thread |-> "", sql |-> <<>>, named |-> FALSE, prefix |-> NoSession,
          result |-> "", fired |-> <<>>, skipped |-> {}]

IgnoreInit ==
    /\ ignore_value = [c \in Threads |-> {}]
    /\ scopes = [c \in Threads |-> <<>>]
    /\ hook = [c \in Threads |-> FALSE]
    /\ txn = [c \in Threads |-> FALSE]
    /\ session = [c \in Threads |-> NoSession]
    /\ ran = NoRan

\* An empty registry and a catalog that holds none of the program's objects,
\* only the other applications' triggers.
Init ==
    /\ registry = <<>>
    /\ triggers = [k \in TrigKeys |->
                      IF k[2] \in ForeignNames THEN "enabled" ELSE "absent"]
    /\ functions = {}
    /\ rendered = NoRendered
    /\ guards = <<>>
    /\ last = Call("init", <<>>, NoTrigger, <<>>, "ok", <<>>)
    /\ stmts = <<>>
    /\ IgnoreInit

\* --------------------------------------------------- registry operations
\* trigger.register(*models), alone or as `with trigger.register(*models):`
Register(trigger, models, scoped) ==
    /\ scoped \/ guards = <<>>
    /\ scoped => Len(guards) < MaxGuards
    /\ registry' = Trigger_register(registry, trigger, models)
    /\ guards' =
         IF scoped
         THEN Append(guards, [cleanup |-> "unregister", trigger |-> trigger,
                              models |-> models, before |-> registry])
         ELSE guards
    /\ last' = Call("register", <<>>, trigger, models, "ok", <<>>)
    /\ stmts' = <<>>
    /\ UNCHANGED <<triggers, functions, rendered>>
    /\ UNCHANGED ignoreVars

\* trigger.unregister(*models), alone or as `with trigger.unregister(*models):`
Unregister(trigger, models, scoped) ==
    LET r == Trigger_unregister([reg |-> registry, err |-> "none"],
                                trigger, models)
    IN  /\ scoped \/ guards = <<>>
        /\ scoped => Len(guards) < MaxGuards
        /\ registry' = r.reg
        /\ guards' =
             IF scoped /\ r.err = "none"
             THEN Append(guards, [cleanup |-> "register", trigger |-> trigger,
                                  models |-> models, before |-> registry])
             ELSE guards
        /\ last' = Call("unregister", <<>>, trigger, models, Result(r), <<>>)
        /\ stmts' = <<>>
        /\ UNCHANGED <<triggers, functions, rendered>>
        /\ UNCHANGED ignoreVars

\* _cleanup_on_exit: the with-block ends normally and cleanup() runs.
GuardExit ==
    /\ guards # <<>>
    /\ LET g == guards[Len(guards)]
           r == IF g.cleanup = "unregister"
                THEN Trigger_unregister([reg |-> registry, err |-> "none"],
                                        g.trigger, g.models)
                ELSE [reg |-> Trigger_register(registry, g.trigger, g.models),
                      err |-> "none"]
       IN  /\ registry' = r.reg
           /\ last' = Call("guard_exit", <<>>, g.trigger, g.models, Result(r),
                           g.before)
    /\ guards' = SubSeq(guards, 1, Len(guards) - 1)
    /\ stmts' = <<>>
    /\ UNCHANGED <<triggers, functions, rendered>>
    /\ UNCHANGED ignoreVars

\* _cleanup_on_exit: the with-block raises; the generator is thrown into at
\* its yield, outside any try, so cleanup() never runs.
GuardExitRaised ==
    /\ guards # <<>>
    /\ LET g == guards[Len(guards)]
       IN  last' = Call("guard_exit", <<>>, g.trigger, g.models, "raised",
                        g.before)
    /\ guards' = SubSeq(guards, 1, Len(guards) - 1)
    /\ stmts' = <<>>
    /\ UNCHANGED <<registry, triggers, functions, rendered>>
    /\ UNCHANGED ignoreVars

\* --------------------------------------------------- lifecycle operations
Install(uris, denied) ==
    LET s == install(Begin, registry, uris, denied)
    IN  /\ Commit(s)
        /\ last' = Call("install", uris, NoTrigger, <<>>, Result(s), <<>>)
        /\ UNCHANGED <<registry, guards>>
        /\ UNCHANGED ignoreVars

Uninstall(uris) ==
    LET s == uninstall(Begin, registry, uris)
    IN  /\ Commit(s)
        /\ last' = Call("uninstall", uris, NoTrigger, <<>>, Result(s), <<>>)
        /\ UNCHANGED <<registry, guards>>
        /\ UNCHANGED ignoreVars

Enable(uris) ==
    LET s == enable(Begin, registry, uris)
    IN  /\ Commit(s)
        /\ last' = Call("enable", uris, NoTrigger, <<>>, Result(s), <<>>)
        /\ UNCHANGED <<registry, guards>>
        /\ UNCHANGED ignoreVars

Disable(uris) ==
    LET s == disable(Begin, registry, uris)
    IN  /\ Commit(s)
        /\ last' = Call("disable", uris, NoTrigger, <<>>, Result(s), <<>>)
        /\ UNCHANGED <<registry, guards>>
        /\ UNCHANGED ignoreVars

Prune ==
    LET s == prune(Begin, registry)
    IN  /\ Commit(s)
        /\ last' = Call("prune", <<>>, NoTrigger, <<>>, Result(s), <<>>)
        /\ UNCHANGED <<registry, guards>>
        /\ UNCHANGED ignoreVars

\* The lifecycle of the declared definitions against the catalog.
Next ==
    \/ \E d \in Declared : Register(d[1], d[2], FALSE)
    \/ \E d \in Declared : Unregister(d[1], d[2], FALSE)
    \/ \E uris \in UriArgs, denied \in DeniedArgs : Install(uris, denied)
    \/ \E uris \in UriArgs : Uninstall(uris)
    \/ \E uris \in UriArgs : Enable(uris)
    \/ \E uris \in UriArgs : Disable(uris)
    \/ Prune

Spec == Init /\ [][Next]_vars

\* The registry alone: register and unregister, plain and as scope guards.
NextRegistry ==
    \/ \E d \in RegisterArgs, sc \in BOOLEAN : Register(d[1], d[2], sc)
    \/ \E d \in RegisterArgs, sc \in BOOLEAN : Unregister(d[1], d[2], sc)
    \/ GuardExit
    \/ GuardExitRaised

SpecRegistry == Init /\ [][NextRegistry]_vars

\* -------------------------------------------------------------- definitions
\* A name one character longer than pgid accepts.
LongName == [i \in 1..(MaxNameLen + 1) |-> "n"]

\* The constructor calls of the host application.
DefineArgs ==
    { [Kwargs EXCEPT !.cls = "Protect", !.name = <<"a">>,
                     !.operation = "DELETE"],
      [Kwargs EXCEPT !.cls = "Protect", !.name = LongName,
                     !.operation = "DELETE"],
      [Kwargs EXCEPT !.cls = "Protect", !.operation = "DELETE"],
      [Kwargs EXCEPT !.cls = "Protect", !.operation = "UPDATE"],
      [Kwargs EXCEPT !.cls = "Protect", !.name = <<"a">>],
      [Kwargs EXCEPT !.cls = "Protect", !.name = <<"a">>, !.level = "row",
                     !.operation = "DELETE"],
      [Kwargs EXCEPT !.name = <<"s">>, !.level = "STATEMENT",
                     !.when = "AFTER", !.operation = "UPDATE",
                     !.referencing = "REFERENCING OLD TABLE AS o ",
                     !.func = <<"f">>],
      [Kwargs EXCEPT !.name = <<"s">>, !.when = "AFTER",
                     !.operation = "UPDATE",
                     !.referencing = "REFERENCING OLD TABLE AS o ",
                     !.func = <<"f">>],
      [Kwargs EXCEPT !.name = <<"s">>, !.operation = "UPDATE",
                     !.func = <<"f">>],
      [Kwargs EXCEPT !.cls = "SoftDelete", !.field = <<"a">>,
                     !.value = PyStr(<<"b", "c">>)],
      [Kwargs EXCEPT !.cls = "SoftDelete", !.field = <<"a", "b">>,
                     !.value = PyStr(<<"c">>)],
      [Kwargs EXCEPT !.cls = "SoftDelete", !.field = <<"f">>],
      [Kwargs EXCEPT !.cls = "SoftDelete", !.field = <<"f">>,
                     !.value = PyStr(<<"F", "a", "l", "s", "e">>)],
      [Kwargs EXCEPT !.cls = "SoftDelete", !.name = <<"a">>,
                     !.field = <<"f">>, !.value = PyTrue],
      [Kwargs EXCEPT !.cls = "SoftDelete"],
      [Kwargs EXCEPT !.cls = "FSM", !.field = <<"f">>,
                     !.transitions = << <<<<"a">>, <<"b">>>> >>],
      [Kwargs EXCEPT !.cls = "FSM", !.field = <<"f">>] }

\* Most entries the registry is filled with while definitions are tried.
MaxRegistered == 2

\* cls(**kwargs): the definition constructed, or the exception raised.
Define(a) ==
    LET c == Construct(a) IN
    /\ last' = [op |-> "construct", uris |-> <<>>, models |-> <<>>,
                before |-> <<>>, kwargs |-> a,
                trigger |-> IF c.err = "none" THEN c.obj ELSE NoTrigger,
                result |-> Result(c)]
    /\ stmts' = <<>>
    /\ UNCHANGED <<registry, triggers, functions, rendered, guards>>
    /\ UNCHANGED ignoreVars

\* trigger.register(model), for the definition just constructed.
RegisterDefined(model) ==
    /\ last.op = "construct" /\ last.result = "ok"
    /\ Len(registry) < MaxRegistered
    /\ Register(last.trigger, <<model>>, FALSE)

\* trigger.unregister(model), for a registered definition.
UnregisterDefined(i) ==
    Unregister(registry[i].trigger, <<registry[i].model>>, FALSE)

\* The definitions of the host application, constructed and registered.
NextDefine ==
    \/ \E a \in DefineArgs : Define(a)
    \/ \E model \in Models : RegisterDefined(model)
    \/ \E i \in 1..Len(registry) : UnregisterDefined(i)

SpecDefine == Init /\ [][NextDefine]_vars

\* Constructor calls that give no name, for each class and for the subclasses
\* with the long class names.
DefaultNamedArgs ==
    { [Kwargs EXCEPT !.when = "AFTER", !.operation = "UPDATE",
                     !.func = <<"f">>],
      [Kwargs EXCEPT !.cls = "Protect", !.operation = "DELETE"],
      [Kwargs EXCEPT !.cls = "SoftDelete", !.field = <<"f">>],
      [Kwargs EXCEPT !.cls = "FSM", !.field = <<"f">>,
                     !.transitions = << <<<<"a">>, <<"b">>>> >>],
      [Kwargs EXCEPT !.cls = "ProtectNamedToThePrefix",
                     !.operation = "DELETE"],
      [Kwargs EXCEPT !.cls = "ProtectNamedBeyondThePrefix",
                     !.operation = "DELETE"],
      [Kwargs EXCEPT !.cls = "ProtectNamedBeyondThePrefix",
                     !.operation = "UPDATE"] }

\* Definitions with default names, constructed and registered.
NextNames ==
    \/ \E a \in DefaultNamedArgs : Define(a)
    \/ \E model \in Models : RegisterDefined(model)
    \/ \E i \in 1..Len(registry) : UnregisterDefined(i)

SpecNames == Init /\ [][NextNames]_vars

\* ------------------------------------------------------------- a long name
\* Protect(name='n' * 54, operation=Delete)
TrigLong == [_name |-> LongName, operation |-> "DELETE", cls |-> "Protect"]

\* The definitions attached to the models, one of them with the long name,
\* and the URI lists the lifecycle calls are tried with.
DeclaredLong == { <<TrigA, <<"m1">> >>, <<TrigLong, <<"m1">> >> }
UriArgsLong ==
    { <<>>, <<get_uri(TrigA, "m1")>>, <<get_uri(TrigLong, "m1")>>,
      <<Malformed>>, <<get_uri(TrigA, "m2")>> }

\* The lifecycle of a registry that can hold the definition with the long
\* name.
NextLong ==
    \/ \E d \in DeclaredLong : Register(d[1], d[2], FALSE)
    \/ \E d \in DeclaredLong : Unregister(d[1], d[2], FALSE)
    \/ \E uris \in UriArgsLong : Install(uris, {})
    \/ \E uris \in UriArgsLong : Uninstall(uris)
    \/ \E uris \in UriArgsLong : Enable(uris)
    \/ \E uris \in UriArgsLong : Disable(uris)
    \/ Prune

SpecLong == Init /\ [][NextLong]_vars

\* ------------------------------------------------------- a changed definition
\* The definitions attached to the models, of which two have one name on one
\* model (the definition before and after the host application changed its
\* operation) and two have one name on two models, and the URI lists the
\* lifecycle calls are tried with.
DeclaredAgain ==
    { <<TrigA, <<"m1">> >>, <<TrigA2, <<"m1">> >>, <<TrigA, <<"m2">> >> }
UriArgsAgain ==
    { <<>>, <<get_uri(TrigA, "m1")>>, <<get_uri(TrigA, "m2")>>,
      <<get_uri(TrigA, "m2"), get_uri(TrigA, "m1")>> }

\* The lifecycle of a registry whose definitions change between installs.
NextReinstall ==
    \/ \E d \in DeclaredAgain : Register(d[1], d[2], FALSE)
    \/ \E d \in DeclaredAgain : Unregister(d[1], d[2], FALSE)
    \/ \E uris \in UriArgsAgain, denied \in DeniedArgs : Install(uris, denied)
    \/ \E uris \in UriArgsAgain : Uninstall(uris)
    \/ \E uris \in UriArgsAgain : Enable(uris)
    \/ \E uris \in UriArgsAgain : Disable(uris)

SpecReinstall == Init /\ [][NextReinstall]_vars

\* ---------------------------------------------------------------------- get
\* The URI lists get is tried with: those of the lifecycle calls, the empty
\* string, and a registered URI followed by the empty string.
GetArgs ==
    UriArgs \cup { << <<>> >>, <<get_uri(TrigB, "m1"), <<>> >> }

\* get(*uris), called by the host application: the list it returns, or the
\* exception it raises.
Get(uris) ==
    LET err == GetError(registry, uris) IN
    /\ last' = [op |-> "get", uris |-> uris, trigger |-> NoTrigger,
                models |-> <<>>, before |-> <<>>,
                result |-> IF err = "none" THEN "ok" ELSE err,
                returned |-> IF err = "none" THEN get(registry, uris)
                             ELSE <<>>]
    /\ stmts' = <<>>
    /\ UNCHANGED <<registry, triggers, functions, rendered, guards>>
    /\ UNCHANGED ignoreVars

\* The registry as the host application fills it, and the lookups in it.
NextGet ==
    \/ \E d \in RegisterArgs \cup Declared : Register(d[1], d[2], FALSE)
    \/ \E d \in RegisterArgs \cup Declared : Unregister(d[1], d[2], FALSE)
    \/ \E uris \in GetArgs : Get(uris)

SpecGet == Init /\ [][NextGet]_vars

\* ------------------------------------------------------------ ignore scopes
\* The statements a thread sends through cursor.execute: the SQL as its words,
\* and whether the cursor is a named (server-side) cursor.
Statements ==
    { [sql |-> <<"delete", "from", "t1">>, named |-> FALSE],
      [sql |-> <<"select", "from", "t1">>, named |-> TRUE],
      [sql |-> <<" ", "CREATE", "index", "CONCURRENTLY", "on", "t1">>,
       named |-> FALSE],
      [sql |-> <<"create", "index", "concurrently", "on", "t1">>,
       named |-> FALSE],
      [sql |-> <<"create", "table", "t3">>, named |-> FALSE],
      [sql |-> <<"reindex", "index", "concurrently", "i1">>, named |-> FALSE] }

\* str.lower(), on the words the statements are written with.
Lower(word) ==
    CASE word = "CREATE" -> "create"
      [] word = "CONCURRENTLY" -> "concurrently"
      [] OTHER -> word

RECURSIVE Strip(_)
\* str.strip(): without the white space at either end.
Strip(sql) ==
    IF sql = <<>> THEN sql
    ELSE IF Head(sql) = " " THEN Strip(Tail(sql))
    ELSE IF sql[Len(sql)] = " " THEN Strip(SubSeq(sql, 1, Len(sql) - 1))
    ELSE sql

\* _is_concurrent_statement: the stripped and lowered SQL starts with 'create'
\* and holds 'concurrently'.
_is_concurrent_statement(sql) ==
    LET words == [i \in 1..Len(Strip(sql)) |-> Lower(Strip(sql)[i])]
    IN  /\ words # <<>>
        /\ words[1] = "create"
        /\ \E i \in 1..Len(words) : words[i] = "concurrently"

\* Variant: a statement of a named cursor is prefixed like any other.
inject_into_named_cursor(stmt, value) ==
    IF _is_concurrent_statement(stmt.sql) THEN NoSession
    ELSE [set |-> TRUE, value |-> value]

\* _inject_pgtrigger_ignore: the value SET LOCAL pgtrigger.ignore is given in
\* front of the statement, or nothing for a statement passed through as it is.
_inject_pgtrigger_ignore(stmt, value) ==
    IF stmt.named THEN NoSession
    ELSE IF _is_concurrent_statement(stmt.sql) THEN NoSession
    ELSE [set |-> TRUE, value |-> value]

\* _pgtrigger_should_ignore(table_name, trigger_name): the session variable
\* is set and holds 'table:trigger'.
_pgtrigger_should_ignore(var, table, trigger_name) ==
    var.set /\ <<table, trigger_name>> \in var.value

\* The row-level BEFORE triggers a statement fires on a row of its table: the
\* enabled bindings for its operation, of registered definitions.
FiredBy(reg, trigs, sql) ==
    IF sql[1] # "delete" THEN {}
    ELSE {reg[i] : i \in {j \in 1..Len(reg) :
            /\ Meta(reg[j].model).db_table = sql[3]
            /\ reg[j].trigger.operation = "DELETE"
            /\ trigs[<<sql[3], pgid(reg[j].trigger)>>] = "enabled"}}

\* The characters of the names, in the order of their codes.
Alphabet ==
    <<".", ":", "M", "N", "_", "a", "b", "d", "e", "g", "h", "i", "l", "n",
      "o", "p", "r", "s", "t", "u", "x">>
Code(ch) == CHOOSE i \in 1..Len(Alphabet) : Alphabet[i] = ch

RECURSIVE NameBefore(_, _)
\* String order, by which PostgreSQL orders the triggers of one event.
NameBefore(a, b) ==
    IF b = <<>> THEN FALSE
    ELSE IF a = <<>> THEN TRUE
    ELSE IF Head(a) # Head(b) THEN Code(Head(a)) < Code(Head(b))
    ELSE NameBefore(Tail(a), Tail(b))

RECURSIVE InFiringOrder(_)
\* The entries of a set, by the names of their triggers.
InFiringOrder(entries) ==
    IF entries = {} THEN <<>>
    ELSE LET first == CHOOSE e \in entries :
                          \A f \in entries \ {e} :
                              NameBefore(pgid(e.trigger), pgid(f.trigger))
         IN  <<first>> \o InFiringOrder(entries \ {first})

RECURSIVE Fire(_, _, _)
\* The triggers fire one after the other; render_ignore returns the row when
\* the predicate holds, and otherwise Protect.get_func raises, which ends the
\* statement.
Fire(entries, var, out) ==
    IF entries = <<>> \/ out.result = "raised" THEN out
    ELSE LET e == Head(entries)
             fired == [out EXCEPT !.fired = Append(@, pgid(e.trigger))]
         IN  IF _pgtrigger_should_ignore(var, Meta(e.model).db_table,
                                         pgid(e.trigger))
             THEN Fire(Tail(entries), var,
                       [fired EXCEPT !.skipped = @ \cup {pgid(e.trigger)}])
             ELSE [fired EXCEPT !.result = "raised"]

\* Variant: one ignore set for the whole process instead of one per thread.
IgnoreEnter_shared(c, e) ==
    LET ignore_uri == <<Meta(e.model).db_table, pgid(e.trigger)>> IN
    /\ Len(scopes[c]) < MaxDepth
    /\ ~PgidRaises(e.trigger)
    /\ hook' = [hook EXCEPT ![c] = @ \/ ignore_value[c] = {}]
    /\ ignore_value' = [d \in Threads |-> ignore_value[d] \cup {ignore_uri}]
    /\ scopes' = [scopes EXCEPT ![c] =
                    Append(@, [uri |-> ignore_uri,
                               added |-> ignore_uri \notin ignore_value[c],
                               hooked |-> ignore_value[c] = {}])]
    /\ ran' = NoRan
    /\ UNCHANGED <<txn, session>>
    /\ UNCHANGED lifecycleVars

\* Trigger.ignore(model), entered: the hook is registered when the thread
\* ignores nothing yet, and the target is added unless it is already there.
IgnoreEnter(c, e) ==
    LET ignore_uri == <<Meta(e.model).db_table, pgid(e.trigger)>> IN
    /\ Len(scopes[c]) < MaxDepth
    /\ ~PgidRaises(e.trigger)
    /\ hook' = [hook EXCEPT ![c] = @ \/ ignore_value[c] = {}]
    /\ ignore_value' = [ignore_value EXCEPT ![c] = @ \cup {ignore_uri}]
    /\ scopes' = [scopes EXCEPT ![c] =
                    Append(@, [uri |-> ignore_uri,
                               added |-> ignore_uri \notin ignore_value[c],
                               hooked |-> ignore_value[c] = {}])]
    /\ ran' = NoRan
    /\ UNCHANGED <<txn, session>>
    /\ UNCHANGED lifecycleVars

\* Variant: leaving a scope removes its target and leaves the hook registered.
IgnoreExit_keeps_hook(c) ==
    /\ scopes[c] # <<>>
    /\ LET f == scopes[c][Len(scopes[c])] IN
          ignore_value' = [ignore_value EXCEPT ![c] =
                             IF f.added THEN @ \ {f.uri} ELSE @]
    /\ scopes' = [scopes EXCEPT ![c] = SubSeq(@, 1, Len(@) - 1)]
    /\ ran' = NoRan
    /\ UNCHANGED <<hook, txn, session>>
    /\ UNCHANGED lifecycleVars

\* Variant: every scope removes its target when it is left, also the one that
\* found the target already ignored.
IgnoreExit_always_removes(c) ==
    /\ scopes[c] # <<>>
    /\ LET f == scopes[c][Len(scopes[c])] IN
          /\ ignore_value' = [ignore_value EXCEPT ![c] = @ \ {f.uri}]
          /\ hook' = [hook EXCEPT ![c] = @ /\ ~f.hooked]
    /\ scopes' = [scopes EXCEPT ![c] = SubSeq(@, 1, Len(@) - 1)]
    /\ ran' = NoRan
    /\ UNCHANGED <<txn, session>>
    /\ UNCHANGED lifecycleVars

\* Trigger.ignore(model), left: the scope that added the target removes it,
\* and the scope that registered the hook unregisters it.
IgnoreExit(c) ==
    /\ scopes[c] # <<>>
    /\ LET f == scopes[c][Len(scopes[c])] IN
          /\ ignore_value' = [ignore_value EXCEPT ![c] =
                                IF f.added THEN @ \ {f.uri} ELSE @]
          /\ hook' = [hook EXCEPT ![c] = @ /\ ~f.hooked]
    /\ scopes' = [scopes EXCEPT ![c] = SubSeq(@, 1, Len(@) - 1)]
    /\ ran' = NoRan
    /\ UNCHANGED <<txn, session>>
    /\ UNCHANGED lifecycleVars

\* Variant: the target is added and the block run outside any try, so that an
\* exception of the block skips the removal.
IgnoreExitRaised_without_finally(c) ==
    /\ scopes[c] # <<>>
    /\ ran.thread = c
    /\ ran.result \in {"raised", "propagated"}
    /\ LET f == scopes[c][Len(scopes[c])] IN
          hook' = [hook EXCEPT ![c] = @ /\ ~f.hooked]
    /\ scopes' = [scopes EXCEPT ![c] = SubSeq(@, 1, Len(@) - 1)]
    /\ ran' = [ran EXCEPT !.result = "propagated"]
    /\ UNCHANGED <<ignore_value, txn, session>>
    /\ UNCHANGED lifecycleVars

\* Trigger.ignore(model), left by an exception of its block (here the one a
\* trigger raised on the thread's last statement): the generator is thrown
\* into at its yield, the finally of the scope that added the target removes
\* it, the ExitStack leaves the hook's context, and the exception goes on to
\* the enclosing scope or the caller.
IgnoreExitRaised(c) ==
    /\ scopes[c] # <<>>
    /\ ran.thread = c
    /\ ran.result \in {"raised", "propagated"}
    /\ LET f == scopes[c][Len(scopes[c])] IN
          /\ ignore_value' = [ignore_value EXCEPT ![c] =
                                IF f.added THEN @ \ {f.uri} ELSE @]
          /\ hook' = [hook EXCEPT ![c] = @ /\ ~f.hooked]
    /\ scopes' = [scopes EXCEPT ![c] = SubSeq(@, 1, Len(@) - 1)]
    /\ ran' = [ran EXCEPT !.result = "propagated"]
    /\ UNCHANGED <<txn, session>>
    /\ UNCHANGED lifecycleVars

\* transaction.atomic() entered: the connection opens a transaction.
Atomic(c) ==
    /\ ~txn[c]
    /\ txn' = [txn EXCEPT ![c] = TRUE]
    /\ ran' = NoRan
    /\ UNCHANGED <<ignore_value, scopes, hook, session>>
    /\ UNCHANGED lifecycleVars

\* The transaction commits or rolls back: what SET LOCAL set is gone.
EndTransaction(c) ==
    /\ txn[c]
    /\ txn' = [txn EXCEPT ![c] = FALSE]
    /\ session' = [session EXCEPT ![c] = NoSession]
    /\ ran' = NoRan
    /\ UNCHANGED <<ignore_value, scopes, hook>>
    /\ UNCHANGED lifecycleVars

\* cursor.execute(sql): a registered hook rewrites the statement; SET LOCAL
\* lasts to the end of the transaction, which without an open one is the
\* statement itself; an exception of a trigger rolls the transaction back.
Execute(c, stmt) ==
    LET injected == IF hook[c]
                    THEN _inject_pgtrigger_ignore(stmt, ignore_value[c])
                    ELSE NoSession
        var == IF injected.set THEN injected ELSE session[c]
        out == Fire(InFiringOrder(FiredBy(registry, triggers, stmt.sql)), var,
                    [thread |-> c, sql |-> stmt.sql, named |-> stmt.named,
                     prefix |-> injected,
                     result |-> "ok", fired |-> <<>>, skipped |-> {}])
    IN  /\ _is_concurrent_statement(stmt.sql) => ~txn[c]
        /\ ran' = out
        /\ txn' = [txn EXCEPT ![c] = @ /\ out.result = "ok"]
        /\ session' = [session EXCEPT ![c] =
                          IF txn[c] /\ out.result = "ok" THEN var ELSE NoSession]
        /\ UNCHANGED <<ignore_value, scopes, hook>>
        /\ UNCHANGED lifecycleVars

\* TrigA and TrigB registered on m1 and installed by install().
Installed ==
    LET reg == Trigger_register(Trigger_register(<<>>, TrigA, <<"m1">>),
                                TrigB, <<"m1">>)
    IN  [reg |-> reg,
         db |-> install([triggers |-> [k \in TrigKeys |->
                                         IF k[2] \in ForeignNames
                                         THEN "enabled" ELSE "absent"],
                         functions |-> {}, rendered |-> NoRendered,
                         stmts |-> <<>>, err |-> "none"],
                        reg, <<>>, {})]

InitIgnore ==
    /\ registry = Installed.reg
    /\ triggers = Installed.db.triggers
    /\ functions = Installed.db.functions
    /\ rendered = Installed.db.rendered
    /\ guards = <<>>
    /\ last = Call("install", <<>>, NoTrigger, <<>>, "ok", <<>>)
    /\ stmts = Installed.db.stmts
    /\ IgnoreInit

\* The threads of a process whose triggers are installed.
NextIgnore ==
    \/ \E c \in Threads, i \in 1..Len(registry) : IgnoreEnter(c, registry[i])
    \/ \E c \in Threads : IgnoreExit(c)
    \/ \E c \in Threads : Atomic(c)
    \/ \E c \in Threads : EndTransaction(c)
    \/ \E c \in Threads, stmt \in Statements : Execute(c, stmt)

SpecIgnore == InitIgnore /\ [][NextIgnore]_vars

\* The same threads, whose scopes are also left by the exceptions of their
\* statements.
NextUnwind ==
    \/ \E c \in Threads, i \in 1..Len(registry) : IgnoreEnter(c, registry[i])
    \/ \E c \in Threads : IgnoreExit(c)
    \/ \E c \in Threads : IgnoreExitRaised(c)
    \/ \E c \in Threads : Atomic(c)
    \/ \E c \in Threads : EndTransaction(c)
    \/ \E c \in Threads, stmt \in Statements : Execute(c, stmt)

SpecUnwind == InitIgnore /\ [][NextUnwind]_vars

\* ------------------------------------------------------------ row statements
\* The rows of table t1 by primary key, and the values of its column f.
Pks == {1, 2}
Values ==
    { PyStr(<<"a">>), PyStr(<<"b">>), PyStr(<<"c">>),
      PyStr(<<"b", ",", "c">>), PyStr(<<"b", ":", "c">>) }
Gone == [type |-> "gone", text |-> <<>>]
\* A table whose row pk holds `old` and whose other rows hold 'c'.
TableWith(pk, old) == [p \in Pks |-> IF p = pk THEN old ELSE PyStr(<<"c">>)]

RECURSIVE SplitOn(_, _)
\* The pieces of a text between the occurrences of a separator.
SplitOn(chars, sep) ==
    IF \A i \in 1..Len(chars) : chars[i] # sep THEN <<chars>>
    ELSE LET i == CHOOSE k \in 1..Len(chars) :
                      chars[k] = sep /\ \A j \in 1..(k - 1) : chars[j] # sep
         IN  <<SubSeq(chars, 1, i - 1)>>
                 \o SplitOn(SubSeq(chars, i + 1, Len(chars)), sep)

\* '{...}'::text[]: the elements of the array literal, which the commas of
\* its text separate.
ArrayElements(literal) ==
    LET parts == SplitOn(SubSeq(literal, 2, Len(literal) - 1), ",")
    IN  {parts[i] : i \in 1..Len(parts)}

\* FSM.get_func: CONCAT(OLD.col, ':', NEW.col) = ANY('{...}'::text[]) INTO
\* _is_valid_transition; raises when that IS FALSE and OLD.col IS DISTINCT
\* FROM NEW.col, and returns NEW otherwise.
FSM_get_func(trigger, old, new) ==
    LET transition_uris ==
            <<"{">> \o JoinTransitions(trigger.transitions) \o <<"}">>
        _is_valid_transition ==
            (old.text \o <<":">> \o new.text) \in ArrayElements(transition_uris)
    IN  IF ~_is_valid_transition /\ old # new THEN "raise" ELSE "NEW"

RECURSIVE Unquote(_)
\* The text of an SQL string constant, read from behind its opening quote:
\* two quotes stand for one, and a single quote ends the constant.
Unquote(chars) ==
    IF chars = <<>> THEN [ok |-> FALSE, text |-> <<>>]
    ELSE IF Head(chars) # "'"
    THEN LET r == Unquote(Tail(chars))
         IN  [r EXCEPT !.text = <<Head(chars)>> \o @]
    ELSE IF Len(chars) >= 2 /\ chars[2] = "'"
    THEN LET r == Unquote(Tail(Tail(chars)))
         IN  [r EXCEPT !.text = <<"'">> \o @]
    ELSE [ok |-> Len(chars) = 1, text |-> <<>>]

\* The value the rendered text denotes in SET col = <text>.
SqlLiteral(sql) ==
    IF sql = <<"N", "U", "L", "L">> THEN PyNone
    ELSE IF Head(sql) = "'" THEN PyStr(Unquote(Tail(sql)).text)
    ELSE [type |-> "bool", text |-> sql]

\* SoftDelete.get_func: UPDATE table SET col = value WHERE pk = OLD.pk;
\* RETURN NULL.  The table after the UPDATE.
SoftDelete_get_func(trigger, table, pk) ==
    [table EXCEPT ![pk] = SqlLiteral(_render_value(trigger.value))]

\* The enabled row-level BEFORE triggers of the registered definitions for an
\* operation on a table.
FiringOn(reg, trigs, table, operation) ==
    {reg[i] : i \in {j \in 1..Len(reg) :
        /\ Meta(reg[j].model).db_table = table
        /\ reg[j].trigger.operation = operation
        /\ trigs[<<table, pgid(reg[j].trigger)>>] = "enabled"}}

RECURSIVE FireOnRow(_, _, _)
\* The triggers fire on the row one after the other.  render_ignore returns
\* the row when the predicate holds; otherwise the body of the class runs.  A
\* trigger that returns NULL ends the firing and the operation on the row.
FireOnRow(entries, var, out) ==
    IF entries = <<>> \/ out.result = "raised" \/ ~out.proceed THEN out
    ELSE LET e == Head(entries)
             fired == [out EXCEPT !.fired = Append(@, pgid(e.trigger))]
         IN  IF _pgtrigger_should_ignore(var, Meta(e.model).db_table,
                                         pgid(e.trigger))
             THEN FireOnRow(Tail(entries), var,
                            [fired EXCEPT !.skipped = @ \cup {pgid(e.trigger)}])
             ELSE CASE e.trigger.cls = "FSM" ->
                           IF FSM_get_func(e.trigger, out.before[out.pk],
                                           out.new) = "raise"
                           THEN [fired EXCEPT !.result = "raised"]
                           ELSE FireOnRow(Tail(entries), var, fired)
                    [] e.trigger.cls = "SoftDelete" ->
                           [fired EXCEPT
                               !.after = SoftDelete_get_func(e.trigger, @,
                                                             out.pk),
                               !.proceed = FALSE]
                    [] OTHER -> [fired EXCEPT !.result = "raised"]

\* UPDATE t1 SET f = new WHERE id = pk, or DELETE FROM t1 WHERE id = pk, sent
\* by a thread outside a transaction against the table `before`.  A trigger
\* that raises undoes the statement.
RowStatement(c, operation, before, pk, new) ==
    LET stmt == [sql |-> <<(IF operation = "DELETE" THEN "delete"
                                                    ELSE "update"),
                           "from", "t1">>,
                 named |-> FALSE]
        injected == IF hook[c]
                    THEN _inject_pgtrigger_ignore(stmt, ignore_value[c])
                    ELSE NoSession
        out == FireOnRow(
                   InFiringOrder(FiringOn(registry, triggers, "t1", operation)),
                   injected,
                   [thread |-> c, sql |-> stmt.sql, named |-> FALSE,
                    prefix |-> injected, result |-> "ok", fired |-> <<>>,
                    skipped |-> {}, operation |-> operation, pk |-> pk,
                    new |-> new, before |-> before, after |-> before,
                    proceed |-> TRUE])
    IN  /\ ~txn[c]
        /\ ran' = IF out.result = "raised" THEN [out EXCEPT !.after = before]
                  ELSE IF out.proceed
                  THEN [out EXCEPT !.after[pk] = IF operation = "DELETE"
                                                 THEN Gone ELSE new]
                  ELSE out
        /\ UNCHANGED <<ignore_value, scopes, hook, txn, session>>
        /\ UNCHANGED lifecycleVars

\* One of the row definitions registered on m1 and installed by install().
InitRows ==
    /\ \E d \in RowDefinitions :
          LET reg == Trigger_register(<<>>, d, <<"m1">>)
              db == install([triggers |-> [k \in TrigKeys |->
                                             IF k[2] \in ForeignNames
                                             THEN "enabled" ELSE "absent"],
                             functions |-> {}, rendered |-> NoRendered,
                             stmts |-> <<>>, err |-> "none"],
                            reg, <<>>, {})
          IN  /\ registry = reg
              /\ triggers = db.triggers
              /\ functions = db.functions
              /\ rendered = db.rendered
              /\ stmts = db.stmts
    /\ guards = <<>>
    /\ last = Call("install", <<>>, NoTrigger, <<>>, "ok", <<>>)
    /\ IgnoreInit

\* One thread that updates and deletes rows, ignores the trigger, and
\* disables and enables it.
NextRows ==
    \/ \E pk \in Pks, old \in Values, new \in Values :
          RowStatement("c1", "UPDATE", TableWith(pk, old), pk, new)
    \/ \E pk \in Pks, old \in Values :
          RowStatement("c1", "DELETE", TableWith(pk, old), pk, old)
    \/ \E i \in 1..Len(registry) : IgnoreEnter("c1", registry[i])
    \/ IgnoreExit("c1")
    \/ Disable(<<>>)
    \/ Enable(<<>>)

SpecRows == InitRows /\ [][NextRows]_vars

\* ======================================================================
\* Properties
\* ======================================================================
\* What the properties speak about, stated apart from the operators above.

\* The name starts with the reserved prefix 'pgtrigger_'.
HasReservedPrefix(nm) ==
    /\ Len(nm) >= 10
    /\ SubSeq(nm, 1, 10) = <<"p", "g", "t", "r", "i", "g", "g", "e", "r", "_">>

\* The catalog key and the backing function of a registry entry.
KeyOf(e) ==
    << (IF e.model = "m1" THEN "t1" ELSE "t2"),
       <<"p", "g", "t", "r", "i", "g", "g", "e", "r", "_">> \o e.trigger._name >>
FuncOf(e) == KeyOf(e)[2]

\* The keys the registry expects, and the entries a call's URIs resolve to.
Expected(reg) == {KeyOf(reg[i]) : i \in 1..Len(reg)}
Resolved(reg, uris) ==
    IF uris = <<>> THEN {reg[i] : i \in 1..Len(reg)}
    ELSE {reg[i] : i \in {j \in 1..Len(reg) :
                            \E u \in 1..Len(uris) : uris[u] = reg[j].uri}}

\* The step is a call of `op` that returned without an exception.
Returned(op) == last'.op = op /\ last'.result = "ok"

\* The indices of the statements of one kind in the statement log.
Sends(log, sql) == {i \in 1..Len(log) : log[i].sql = sql}

\* ---------------------------------------------------------------------- C1
\* The targets the thread has an open ignore scope for.
OpenTargets(c) == {scopes[c][i].uri : i \in 1..Len(scopes[c])}

\* C1 (as claimed): a trigger fired by a statement of a thread skips its body
\* exactly when that thread has, as the statement is issued, an open ignore
\* scope for the trigger's table:pgid; so a Protect trigger raises on the
\* first DELETE after the scope has exited, whether or not the transaction
\* that was open during the scope still is.
C1_SkipsIffScopeOpen ==
    ran.thread # "" =>
        \A i \in 1..Len(ran.fired) :
            (ran.fired[i] \in ran.skipped)
                <=> (<<ran.sql[3], ran.fired[i]>> \in OpenTargets(ran.thread))

\* ---------------------------------------------------------------------- C2
\* C2 (as claimed): prune() drops every trigger whose name carries the
\* reserved prefix and whose (table, pgid) the registry does not expect, and
\* leaves every other trigger of the database as it was.
C2_PruneDropsOnlyUnexpectedPrefixed ==
    [][Returned("prune") =>
        \A k \in TrigKeys :
            triggers'[k] =
                IF HasReservedPrefix(k[2]) /\ k \notin Expected(registry)
                THEN "absent" ELSE triggers[k]]_vars

\* ---------------------------------------------------------------------- C3
\* The state after install() and the removal of one definition: every
\* registered binding is there, and the catalog holds exactly one more trigger
\* that prune's query sees, the removed definition's.
OneOrphan(k) ==
    /\ HasReservedPrefix(k[2])
    /\ triggers[k] # "absent"
    /\ k \notin Expected(registry)
    /\ k[2] \in functions
    /\ \A j \in TrigKeys :
          (j # k /\ triggers[j] # "absent" /\ j \notin Expected(registry))
              => j[2] = <<"o">>
    /\ \A j \in Expected(registry) : triggers[j] # "absent"

\* C3 (as claimed): from that state prune() removes exactly the removed
\* definition's trigger and its backing function, and nothing else.
C3_PruneRemovesTriggerAndFunction ==
    [][\A k \in TrigKeys :
          (OneOrphan(k) /\ Returned("prune")) =>
              /\ triggers' = [triggers EXCEPT ![k] = "absent"]
              /\ functions' = functions \ {k[2]}]_vars

\* C3 (amended): from that state prune() removes exactly the removed
\* definition's trigger binding; its backing function stays in the database,
\* and no other trigger or function is removed.
C3_PruneRemovesTriggerOnly ==
    [][\A k \in TrigKeys :
          (OneOrphan(k) /\ Returned("prune")) =>
              /\ triggers' = [triggers EXCEPT ![k] = "absent"]
              /\ functions' = functions]_vars

\* A prune that dropped exactly one trigger, a removed definition's, while the
\* registry still holds an installed definition.
C3_Witness ==
    /\ last.op = "prune" /\ last.result = "ok"
    /\ Cardinality(Sends(stmts, "DROP TRIGGER IF EXISTS")) = 1
    /\ \A i \in Sends(stmts, "DROP TRIGGER IF EXISTS") :
          /\ HasReservedPrefix(stmts[i].name)
          /\ triggers[<<stmts[i].table, stmts[i].name>>] = "absent"
          /\ stmts[i].name \in functions
    /\ registry # <<>>
    /\ \A j \in Expected(registry) : triggers[j] # "absent"

\* ---------------------------------------------------------------------- C4
\* C4 (as claimed): enable(*uris) and disable(*uris) given URIs change the
\* status of the triggers the URIs resolve to and of no other trigger, and
\* create or remove no function and no binding.
C4_EnableDisableOnlyNamed ==
    [][((Returned("enable") \/ Returned("disable")) /\ last'.uris # <<>>) =>
        /\ functions' = functions
        /\ \A k \in TrigKeys :
              /\ (triggers'[k] = "absent") = (triggers[k] = "absent")
              /\ k \notin {KeyOf(e) : e \in Resolved(registry, last'.uris)}
                    => triggers'[k] = triggers[k]]_vars

\* ---------------------------------------------------------------------- C5
\* C5 (as claimed): install never returns normally while the binding of a
\* pair it resolved is absent: a failure of CREATE TRIGGER other than
\* 'already exists' reaches the caller.
C5_InstallOkImpliesBinding ==
    (last.op = "install" /\ last.result = "ok") =>
        \A e \in Resolved(registry, last.uris) : triggers[KeyOf(e)] # "absent"

\* ---------------------------------------------------------------------- C6
\* C6 (as claimed): registering a definition under a URI the registry already
\* holds fails and leaves the registry, the existing entry included, unchanged.
C6_DuplicateRegisterFails ==
    [][(last'.op = "register"
          /\ \E i \in 1..Len(last'.models) :
                \E j \in 1..Len(registry) :
                    registry[j].uri =
                        (IF last'.models[i] = "m1" THEN <<"x", ".", "M">>
                                                   ELSE <<"x", ".", "N">>)
                            \o <<":">> \o last'.trigger._name)
        => (last'.result # "ok" /\ registry' = registry)]_vars

\* ---------------------------------------------------------------------- C7
\* C7 (as claimed): when the scope of a register or unregister guard has
\* exited, the registry maps the same URIs to the same pairs as before the
\* guarded call.  Stated for the scopes whose block ended normally; a block
\* that raises skips the cleanup altogether (GuardExitRaised).
C7_GuardRestoresRegistry ==
    (last.op = "guard_exit" /\ last.result # "raised") =>
        {registry[i] : i \in 1..Len(registry)}
            = {last.before[i] : i \in 1..Len(last.before)}

\* ---------------------------------------------------------------------- C8
\* The edges of the per-definition state machine, as (call, from, to).
Lifecycle ==
    { <<"install", "absent", "enabled">>,
      <<"disable", "enabled", "disabled">>,
      <<"enable", "disabled", "enabled">>,
      <<"uninstall", "enabled", "absent">>,
      <<"uninstall", "disabled", "absent">> }

\* C8 (as claimed): a lifecycle call that returns moves every definition it
\* resolved along the edge of the state machine that carries the call's name,
\* and no call changes the state of a registered definition along anything
\* but such an edge.
C8_LifecycleStateMachine ==
    [][\A e \in {registry[i] : i \in 1..Len(registry)} :
          /\ \A edge \in Lifecycle :
                (/\ Returned(edge[1])
                 /\ e \in Resolved(registry, last'.uris)
                 /\ triggers[KeyOf(e)] = edge[2])
                    => triggers'[KeyOf(e)] = edge[3]
          /\ (registry' = registry /\ triggers'[KeyOf(e)] # triggers[KeyOf(e)])
                => <<last'.op, triggers[KeyOf(e)], triggers'[KeyOf(e)]>>
                       \in Lifecycle]_vars

\* ---------------------------------------------------------------------- C9
\* The statements install sends for the pairs it resolved: three per pair.
InstallLog(log, pairs) ==
    /\ Len(log) >= 3 * Len(pairs)
    /\ \A i \in 1..Len(pairs) :
          /\ log[3 * i - 2].sql = "CREATE OR REPLACE FUNCTION"
          /\ log[3 * i - 2].name = IgnoreFunc
          /\ log[3 * i - 1].sql = "CREATE OR REPLACE FUNCTION"
          /\ log[3 * i - 1].name = FuncOf(pairs[i])
          /\ log[3 * i].sql = "CREATE TRIGGER"
          /\ <<log[3 * i].table, log[3 * i].name>> = KeyOf(pairs[i])

\* The pairs a call's URIs name, in the order of the URIs (of the registry
\* when there are none).
PairsOf(reg, uris) ==
    IF uris = <<>> THEN reg
    ELSE [u \in 1..Len(uris) |->
            reg[CHOOSE j \in 1..Len(reg) : reg[j].uri = uris[u]]]

\* prune ran after the statements of the pairs exactly when no URI was given.
PruneIffNoUris(log, pairs, uris) ==
    /\ (Sends(log, "SELECT triggers") # {}) = (uris = <<>>)
    /\ \A i \in Sends(log, "SELECT triggers") : i = 3 * Len(pairs) + 1

Again(first) == [first EXCEPT !.stmts = <<>>]

\* The second call returns and leaves the catalog as the first call left it.
SameAfter(first, second) ==
    first.err = "none" =>
        /\ second.err = "none"
        /\ second.triggers = first.triggers
        /\ second.functions = first.functions
        /\ second.rendered = first.rendered

\* C11: install, uninstall, enable, disable and prune are idempotent: in every
\* reachable state, a call that returns can be made again with the same
\* arguments, returns again, and leaves the triggers and functions of the
\* database as the first call left them.
C11_Idempotent ==
    /\ \A uris \in UriArgs :
          /\ \A denied \in DeniedArgs :
                LET first == install(Begin, registry, uris, denied)
                IN  SameAfter(first,
                              install(Again(first), registry, uris, denied))
          /\ LET first == uninstall(Begin, registry, uris)
             IN  SameAfter(first, uninstall(Again(first), registry, uris))
          /\ LET first == enable(Begin, registry, uris)
             IN  SameAfter(first, enable(Again(first), registry, uris))
          /\ LET first == disable(Begin, registry, uris)
             IN  SameAfter(first, disable(Again(first), registry, uris))
    /\ LET first == prune(Begin, registry)
       IN  SameAfter(first, prune(Again(first), registry))

\* An uninstall of a named, installed definition has returned, and the same
\* uninstall returns again without changing the catalog.
C11_Witness ==
    /\ last.op = "uninstall" /\ last.result = "ok" /\ Len(last.uris) = 1
    /\ stmts[1].sql = "DROP TRIGGER IF EXISTS"
    /\ stmts[1].name \in functions
    /\ uninstall(Begin, registry, last.uris).err = "none"
    /\ uninstall(Begin, registry, last.uris).triggers = triggers

\* --------------------------------------------------------------------- C12
\* What a statement of a thread carries in front of it, as things stand.
Carried(d, stmt) ==
    IF hook[d] THEN _inject_pgtrigger_ignore(stmt, ignore_value[d])
    ELSE NoSession

\* C12: a step that enters or exits an ignore scope of one thread leaves the
\* ignore set, the hook, the open scopes and the session variable of every
\* other thread as they were, and with them the value every statement of
\* another thread carries.
C12_ContextsIndependent ==
    [][\A c \in Threads :
          scopes'[c] # scopes[c] =>
              \A d \in Threads \ {c} :
                  /\ ignore_value'[d] = ignore_value[d]
                  /\ hook'[d] = hook[d]
                  /\ scopes'[d] = scopes[d]
                  /\ session'[d] = session[d]
                  /\ \A stmt \in Statements :
                        Carried(d, stmt)' = Carried(d, stmt)]_vars

\* Thread c1 has ignored a target, sent a statement for it and left its scope;
\* thread c2 has its own scope open on the same target, and its DELETE has
\* just skipped that trigger.
C12_Witness ==
    /\ ran.thread = "c2" /\ ran.result = "ok"
    /\ scopes["c1"] = <<>>
    /\ session["c1"].set
    /\ \E t \in session["c1"].value :
          /\ t \in OpenTargets("c2")
          /\ t[2] \in ran.skipped
          /\ ran.prefix.set /\ t \in ran.prefix.value

\* --------------------------------------------------------------------- C19
\* C19: in every state, the pre-execute hook of a thread is registered
\* exactly when the thread's ignore set is not empty.
C19_HookIffIgnoring ==
    \A c \in Threads : hook[c] <=> (ignore_value[c] # {})

\* A thread that ignored two targets and sent a statement has left the inner
\* scope: one target is left in its set and the hook is still registered.
C19_Witness ==
    /\ Len(scopes["c1"]) = 1
    /\ Cardinality(ignore_value["c1"]) = 1
    /\ hook["c1"]
    /\ session["c1"].set /\ Cardinality(session["c1"].value) = 2

\* --------------------------------------------------------------------- C20
\* The statement's first word that is not white space, and whether the
\* statement holds a word, each without regard to letter case.
FirstWord(sql) == sql[CHOOSE i \in 1..Len(sql) :
                         sql[i] # " " /\ \A j \in 1..(i - 1) : sql[j] = " "]
Holds(sql, lower, upper) == \E i \in 1..Len(sql) : sql[i] \in {lower, upper}

WellFormed(uri) == \E i \in 1..Len(uri) : uri[i] = ":"
Registered(reg, uri) == \E i \in 1..Len(reg) : reg[i].uri = uri

\* C13 (as claimed): get() returns every registered pair, in the order the
\* URIs were registered in; get(*uris) returns the pairs of its URIs in the
\* order given; and a URI without ':' or one the registry does not hold makes
\* get fail with the configuration error (ValueError).
C13_GetContract ==
    [][/\ (last'.op = "get" /\ last'.uris = <<>>) =>
            /\ last'.result = "ok"
            /\ last'.returned = registry
       /\ (/\ last'.op = "get" /\ last'.uris # <<>>
           /\ \A i \in 1..Len(last'.uris) :
                 WellFormed(last'.uris[i]) /\ Registered(registry, last'.uris[i]))
              => /\ last'.result = "ok"
                 /\ Len(last'.returned) = Len(last'.uris)
                 /\ \A i \in 1..Len(last'.uris) :
                       /\ last'.returned[i].uri = last'.uris[i]
                       /\ \E j \in 1..Len(registry) :
                             registry[j] = last'.returned[i]
       /\ (/\ last'.op = "get"
           /\ \E i \in 1..Len(last'.uris) :
                 ~WellFormed(last'.uris[i])
                     \/ ~Registered(registry, last'.uris[i]))
              => last'.result = "ValueError"
       /\ (/\ last'.op = "register"
           /\ \A i \in 1..Len(registry') :
                 registry'[i].trigger = last'.trigger
                     => ~Registered(registry, registry'[i].uri))
              => /\ Len(registry') = Len(registry) + Len(last'.models)
                 /\ SubSeq(registry', 1, Len(registry)) = registry]_vars

\* --------------------------------------------------------------------- C15
\* C15 (as claimed): a constructor call with a name of more than 53
\* characters raises the configuration error, so that no registered
\* definition has such a name.
C15_LongNameFailsAtConstruction ==
    /\ (last.op = "construct" /\ Len(last.kwargs.name) > 53)
          => last.result = "ValueError"
    /\ \A i \in 1..Len(registry) : Len(registry[i].trigger._name) <= 53

\* --------------------------------------------------------------------- C16
\* The default name of a registered definition, read off its URI.
NameInUri(e) ==
    SubSeq(e.uri, 1 + CHOOSE i \in 1..Len(e.uri) : e.uri[i] = ":", Len(e.uri))

\* C16 (as claimed): a definition constructed with a name has that name, and
\* one constructed without a name has a default name that differs from the
\* default name of every registered definition of its class that differs from
\* it in an attribute (and equals that of one with the same attributes).
C16_DefaultNamePure ==
    (last.op = "construct" /\ last.result = "ok") =>
        /\ last.kwargs.name # <<>> => name(last.trigger) = last.kwargs.name
        /\ \A i \in 1..Len(registry) :
              (/\ last.trigger._name = <<>>
               /\ registry[i].trigger._name = <<>>
               /\ registry[i].trigger.cls = last.trigger.cls)
                  => ((name(last.trigger) = NameInUri(registry[i]))
                        <=> (last.trigger = registry[i].trigger))

\* --------------------------------------------------------------------- C14
\* C14 (as claimed): a lifecycle call that ends with the configuration error
\* (a malformed or unknown URI, a name of more than 53 characters) has sent
\* no statement, and the triggers and functions of the database are as they
\* were before the call.
C14_ConfigurationErrorBeforeDatabase ==
    [][(/\ last'.op \in {"install", "uninstall", "enable", "disable", "prune"}
        /\ last'.result \in {"ValueError", "KeyError"})
          => /\ stmts' = <<>>
             /\ triggers' = triggers
             /\ functions' = functions]_vars

\* --------------------------------------------------------------------- C17
\* The last statement of a thread was the given row operation, and the
\* trigger of the definition fired on its row without being ignored.
FiredOn(trigger, operation) ==
    /\ "operation" \in DOMAIN ran
    /\ ran.operation = operation
    /\ \E k \in 1..Len(ran.fired) : ran.fired[k] = pgid(trigger)
    /\ pgid(trigger) \notin ran.skipped

\* The pair (old, new) is one of the transitions the definition lists.
Listed(trigger, old, new) ==
    \E k \in 1..Len(trigger.transitions) :
        trigger.transitions[k] = <<old.text, new.text>>

\* C17 (as claimed): an update on which the trigger of an FSM definition
\* fires raises if and only if the value of the field changed and the pair
\* (old, new) is not one of the listed transitions.
C17_FSMRaisesIffUnlisted ==
    \A i \in 1..Len(registry) :
        (registry[i].trigger.cls = "FSM"
            /\ FiredOn(registry[i].trigger, "UPDATE"))
          => ((ran.result = "raised")
                <=> (/\ ran.before[ran.pk] # ran.new
                     /\ ~Listed(registry[i].trigger, ran.before[ran.pk],
                                ran.new)))

\* --------------------------------------------------------------------- C18
\* C18 (as claimed): a delete on which the trigger of a SoftDelete definition
\* fires leaves the row in the table with the field set to the configured
\* value, and leaves every other row as it was.
C18_SoftDeleteSetsValue ==
    \A i \in 1..Len(registry) :
        (registry[i].trigger.cls = "SoftDelete"
            /\ FiredOn(registry[i].trigger, "DELETE"))
          => /\ ran.after[ran.pk] # Gone
             /\ ran.after[ran.pk] = registry[i].trigger.value
             /\ \A p \in Pks \ {ran.pk} : ran.after[p] = ran.before[p]

\* --------------------------------------------------------------------- C21
\* C21: when a scope of a thread is left by an exception, the target the
\* scope added is no longer in the thread's ignore set, the hook is not
\* registered once the set is empty, and the exception has gone on outwards.
C21_RaisingBlockUnwinds ==
    [][\A c \in Threads :
          (/\ ran.thread = c
           /\ ran.result \in {"raised", "propagated"}
           /\ Len(scopes'[c]) < Len(scopes[c])
           /\ ran' # NoRan)
            => LET f == scopes[c][Len(scopes[c])] IN
               /\ scopes'[c] = SubSeq(scopes[c], 1, Len(scopes[c]) - 1)
               /\ f.added => f.uri \notin ignore_value'[c]
               /\ ignore_value'[c] = {} => ~hook'[c]
               /\ ignore_value'[c] = ignore_value[c] \ (IF f.added THEN {f.uri}
                                                                   ELSE {})
               /\ ran'.result = "propagated"]_vars

\* A trigger raised inside the scopes of a thread, and the exception has left
\* them all: the set is empty and the hook is gone.
C21_Witness ==
    /\ ran.result = "propagated"
    /\ scopes[ran.thread] = <<>>
    /\ ignore_value[ran.thread] = {}
    /\ ~hook[ran.thread]

\* --------------------------------------------------------------------- C22
\* A trigger of the program in the database whose (table, name) no entry of
\* the registry stands for.
Orphaned(k) ==
    /\ HasReservedPrefix(k[2])
    /\ triggers[k] # "absent"
    /\ k \notin Expected(registry)

\* The call that led to the next state prunes: prune(), install() without
\* URIs, or uninstall.
Prunes ==
    \/ last'.op \in {"prune", "uninstall"}
    \/ last'.op = "install" /\ last'.uris = <<>>

OuterTargets(c) == {scopes[c][i].uri : i \in 1..(Len(scopes[c]) - 1)}

\* C23: with scopes left innermost first, a thread's ignore set is always the
\* set of the targets of its open scopes; leaving a scope whose target an
\* outer scope also has leaves the target in the set, and a target leaves
\* the set only when the last open scope that has it is left.
C23_ReentrantPerTarget ==
    [][\A c \in Threads :
          /\ ignore_value'[c] = {scopes'[c][i].uri : i \in 1..Len(scopes'[c])}
          /\ Len(scopes'[c]) < Len(scopes[c]) =>
                LET f == scopes[c][Len(scopes[c])] IN
                /\ f.uri \in OuterTargets(c) =>
                      ignore_value'[c] = ignore_value[c]
                /\ f.uri \notin OuterTargets(c) =>
                      ignore_value'[c] = ignore_value[c] \ {f.uri}
          /\ \A u \in ignore_value[c] \ ignore_value'[c] :
                /\ Len(scopes'[c]) < Len(scopes[c])
                /\ u = scopes[c][Len(scopes[c])].uri
                /\ u \notin OuterTargets(c)]_vars

\* A statement skipped a trigger and another trigger raised on it inside two
\* scopes of one thread; the exception has left the inner scope, the outer
\* one has the skipped trigger as its target, and so had the inner one (the
\* statement would not have raised with both triggers ignored): the target is
\* still in the set, and the hook still registered.
C23_Witness ==
    /\ ran.result = "propagated"
    /\ Len(scopes[ran.thread]) = 1
    /\ scopes[ran.thread][1].uri[2] \in ran.skipped
    /\ ignore_value[ran.thread] = {scopes[ran.thread][1].uri}
    /\ hook[ran.thread]

\* --------------------------------------------------------------------- C25
\* C25: a definition constructed without a name has a name of the class
\* prefix, of at most 37 characters, and 16 characters of the digest, which is
\* at most 53 characters long, and pgid does not raise for it.
C25_DefaultNameFits ==
    (last.op = "construct" /\ last.result = "ok" /\ last.kwargs.name = <<>>) =>
        /\ Len(name(last.trigger)) =
              (IF Len(ClassName(last.trigger.cls)) + 1 > PrefixLen
               THEN PrefixLen ELSE Len(ClassName(last.trigger.cls)) + 1)
                  + HashLen
        /\ Len(name(last.trigger)) <= MaxNameLen
        /\ ~PgidRaises(last.trigger)

\* A definition without a name, of a class whose name with the underscore is
\* longer than the prefix, is registered: its name has 53 characters.
C25_Witness ==
    /\ last.op = "register" /\ last.result = "ok"
    /\ last.trigger._name = <<>>
    /\ Len(ClassName(last.trigger.cls)) + 1 > PrefixLen
    /\ Len(name(last.trigger)) = MaxNameLen
    /\ \E i \in 1..Len(registry) : registry[i].trigger = last.trigger

\* --------------------------------------------------------------------- C24
\* The last of the pairs an install goes through whose function has the name.
LastFor(pairs, fname) ==
    pairs[CHOOSE j \in 1..Len(pairs) :
             /\ pgid(pairs[j].trigger) = fname
             /\ \A i \in (j + 1)..Len(pairs) : pgid(pairs[i].trigger) # fname]

\* trigger.install(model) for an entry of the registry, from this state.
InstallOne(e, denied) == Trigger_install(Begin, e, denied)

\* C24: installing a registered definition whose trigger exists on the table
\* leaves the trigger as it was, in its status and in the when, operation,
\* level and condition it was created with, and leaves the function of its
\* name with the text rendered from the definition; and so does an install
\* that returns, for every definition it installs (the text being that of the
\* last definition of that name, when the install goes through several).
C24_InstallKeepsBindingReplacesFunction ==
    [][/\ \A i \in 1..Len(registry), denied \in DeniedArgs :
             triggers[KeyOf(registry[i])] # "absent" =>
                 LET after == InstallOne(registry[i], denied) IN
                 /\ after.err = "none"
                 /\ after.triggers = triggers
                 /\ after.rendered.trigger = rendered.trigger
                 /\ after.rendered.func[FuncOf(registry[i])] =
                       render_func(registry[i])
       /\ Returned("install") =>
             LET pairs == get(registry, last'.uris) IN
             \A i \in 1..Len(pairs) :
                 triggers[KeyOf(pairs[i])] # "absent" =>
                     /\ triggers'[KeyOf(pairs[i])] = triggers[KeyOf(pairs[i])]
                     /\ rendered'.trigger[KeyOf(pairs[i])] =
                           rendered.trigger[KeyOf(pairs[i])]
                     /\ rendered'.func[FuncOf(pairs[i])] =
                           render_func(LastFor(pairs, FuncOf(pairs[i])))]_vars

\* An install has returned for a registered definition whose trigger is
\* disabled and was created from another text than the definition renders
\* now, and whose function has the text the definition renders now.
C24_Witness ==
    /\ last.op = "install" /\ last.result = "ok"
    /\ \E e \in Resolved(registry, last.uris) :
          /\ triggers[KeyOf(e)] = "disabled"
          /\ rendered.trigger[KeyOf(e)] # render_trigger(e)
          /\ rendered.func[FuncOf(e)] = render_func(e)
          /\ \E i \in Sends(stmts, "CREATE TRIGGER") :
                <<stmts[i].table, stmts[i].name>> = KeyOf(e)

====
